---- MODULE Spec2Model ----
(***************************************************************************)
(* A model of the flame-sample pipeline: the OpenFOAM output parser        *)
(* (OneDSampler._collect_data), the sampler life cycle (sample, get_data,  *)
(* save), the external invocations of _run_case_setup and the case         *)
(* parameter deriver (update_case_parameters).                             *)
(*                                                                         *)
(* Text is modelled at character level: a string is a sequence of          *)
(* one-character strings, a file is a sequence of lines without their      *)
(* newline.  Decimal numbers read from text are exact rationals <<n, d>>   *)
(* in lowest terms with d > 0.                                             *)
(***************************************************************************)
EXTENDS Integers, Sequences, FiniteSets, TLC

(***************************************************************************)
(* Python values that are not data.                                        *)
(***************************************************************************)
\* An attribute that is None or an array is a sequence of length 0 or 1.
None == <<>>
Some(x) == <<x>>
\* the exception in flight: NoException, or the name of the exception class
NoException == "none"

(***************************************************************************)
(* Characters and decimal text.                                            *)
(***************************************************************************)
DigitChars == {"0", "1", "2", "3", "4", "5", "6", "7", "8", "9"}

DigitVal(c) ==
  CASE c = "0" -> 0 [] c = "1" -> 1 [] c = "2" -> 2 [] c = "3" -> 3
    [] c = "4" -> 4 [] c = "5" -> 5 [] c = "6" -> 6 [] c = "7" -> 7
    [] c = "8" -> 8 [] c = "9" -> 9

RECURSIVE Pow10(_)
Pow10(k) == IF k <= 0 THEN 1 ELSE 10 * Pow10(k - 1)

RECURSIVE Gcd(_, _)
Gcd(a, b) == IF b = 0 THEN a ELSE Gcd(b, a % b)

Abs(x) == IF x < 0 THEN -x ELSE x

\* the rational n/d in lowest terms
Rat(n, d) ==
  LET g == Gcd(Abs(n), d) IN <<n \div g, d \div g>>

RatLess(a, b) == a[1] * b[2] < b[1] * a[2]

\* first index >= i of s that holds no digit (Len(s) + 1 when there is none)
RECURSIVE SkipDigits(_, _)
SkipDigits(s, i) ==
  IF i <= Len(s) /\ s[i] \in DigitChars THEN SkipDigits(s, i + 1) ELSE i

\* the number written by the digits s[i], ..., s[j-1]
RECURSIVE DigitsValue(_, _, _)
DigitsValue(s, i, j) ==
  IF j <= i THEN 0 ELSE 10 * DigitsValue(s, i, j - 1) + DigitVal(s[j - 1])

(***************************************************************************)
(* utils.is_numeric_string: re.match of the pattern "optional sign, then   *)
(* digits with an optional point and optional digits, or a point and       *)
(* digits; then an optional exponent e or E with optional sign and         *)
(* digits; then the end of the string".                                    *)
(***************************************************************************)
is_numeric_string(s) ==
  LET n      == Len(s)
      i0     == IF n >= 1 /\ s[1] \in {"-", "+"} THEN 2 ELSE 1
      i1     == SkipDigits(s, i0)
      hasDot == i1 <= n /\ s[i1] = "."
      i2     == IF hasDot THEN SkipDigits(s, i1 + 1) ELSE i1
      mantOK == \/ i1 > i0
                \/ hasDot /\ i2 > i1 + 1
      hasExp == i2 <= n /\ s[i2] \in {"e", "E"}
      i3     == IF hasExp /\ i2 + 1 <= n /\ s[i2 + 1] \in {"-", "+"}
                THEN i2 + 2 ELSE i2 + 1
      i4     == IF hasExp THEN SkipDigits(s, i3) ELSE i2
      expOK  == hasExp => i4 > i3
  IN  mantOK /\ expOK /\ i4 = n + 1

(***************************************************************************)
(* Python's float(text) on decimal text: float_raises says whether it      *)
(* raises ValueError (the text is no decimal literal), float is the value  *)
(* as a rational when it does not.                                         *)
(***************************************************************************)
ValueError == "ValueError"

FloatParts(s) ==
  LET n      == Len(s)
      neg    == n >= 1 /\ s[1] = "-"
      i0     == IF n >= 1 /\ s[1] \in {"-", "+"} THEN 2 ELSE 1
      i1     == SkipDigits(s, i0)
      hasDot == i1 <= n /\ s[i1] = "."
      f0     == i1 + 1
      i2     == IF hasDot THEN SkipDigits(s, f0) ELSE i1
      nfrac  == IF hasDot THEN i2 - f0 ELSE 0
      hasExp == i2 <= n /\ s[i2] \in {"e", "E"}
      eneg   == hasExp /\ i2 + 1 <= n /\ s[i2 + 1] = "-"
      i3     == IF hasExp /\ i2 + 1 <= n /\ s[i2 + 1] \in {"-", "+"}
                THEN i2 + 2 ELSE i2 + 1
      i4     == IF hasExp THEN SkipDigits(s, i3) ELSE i2
      wellFormed == /\ (i1 > i0 \/ nfrac > 0)
                    /\ (hasExp => i4 > i3)
                    /\ i4 = n + 1
      mant   == DigitsValue(s, i0, i1) * Pow10(nfrac)
                  + (IF hasDot THEN DigitsValue(s, f0, i2) ELSE 0)
      ex     == IF hasExp THEN DigitsValue(s, i3, i4) ELSE 0
      num    == (IF neg THEN -mant ELSE mant) * (IF eneg THEN 1 ELSE Pow10(ex))
      den    == Pow10(nfrac) * (IF eneg THEN Pow10(ex) ELSE 1)
  IN  [wellFormed |-> wellFormed, num |-> num, den |-> den]

float_raises(s) == ~FloatParts(s).wellFormed

float(s) == LET p == FloatParts(s) IN Rat(p.num, p.den)

(***************************************************************************)
(* str operations used by the parser.                                      *)
(***************************************************************************)
WhiteChars == {" ", "\t"}

\* Python's  sub in line
Contains(sub, line) ==
  \E i \in 1..(Len(line) - Len(sub) + 1) :
     \A j \in 1..Len(sub) : line[i + j - 1] = sub[j]

\* Python's  line.split(): the maximal runs of non-white characters, in order
RECURSIVE SplitFrom(_, _, _)
SplitFrom(line, i, cur) ==
  IF i > Len(line)
  THEN IF cur = <<>> THEN <<>> ELSE <<cur>>
  ELSE IF line[i] \in WhiteChars
       THEN (IF cur = <<>> THEN <<>> ELSE <<cur>>) \o SplitFrom(line, i + 1, <<>>)
       ELSE SplitFrom(line, i + 1, Append(cur, line[i]))

split(line) == SplitFrom(line, 1, <<>>)

\* Python's  s[:-1]
DropLast(s) == IF Len(s) = 0 THEN s ELSE SubSeq(s, 1, Len(s) - 1)

\* Python's  lines[start:end]  for 0 <= start, 0 <= end (0-based, end exclusive)
Slice(lines, start, end) ==
  LET hi == IF end > Len(lines) THEN Len(lines) ELSE end
  IN  IF start >= hi THEN <<>> ELSE SubSeq(lines, start + 1, hi)

(***************************************************************************)
(* numpy on the shapes the parser uses.  A column (an (n, 1) array) is a   *)
(* sequence of n values; an (n, c) array is a sequence of n rows of c      *)
(* values.                                                                 *)
(***************************************************************************)
\* the lines np.loadtxt turns into rows: those that hold a token
RECURSIVE NonBlank(_)
NonBlank(lines) ==
  IF lines = <<>> THEN <<>>
  ELSE (IF split(Head(lines)) = <<>> THEN <<>> ELSE <<split(Head(lines))>>)
         \o NonBlank(Tail(lines))

\* np.loadtxt(list of lines) raises ValueError for a token that is no number
\* and for rows of different lengths
loadtxt_raises(lines) ==
  LET rows == NonBlank(lines)
  IN  \/ \E r \in 1..Len(rows) : \E t \in 1..Len(rows[r]) : float_raises(rows[r][t])
      \/ \E a, b \in 1..Len(rows) : Len(rows[a]) # Len(rows[b])

\* np.loadtxt(list of lines): one row per non-blank line, every token a float
loadtxt(lines) ==
  LET rows == NonBlank(lines)
  IN  [r \in 1..Len(rows) |-> [t \in 1..Len(rows[r]) |-> float(rows[r][t])]]

RECURSIVE Flatten(_)
\* ndarray.reshape(-1, 1): all values in row-major order, as one column
Flatten(rows) == IF rows = <<>> THEN <<>> ELSE Head(rows) \o Flatten(Tail(rows))

\* np.ones((n, 1)) * value
ones_times(n, value) == [j \in 1..n |-> value]

\* np.concatenate(columns, axis=1) raises ValueError when the columns differ
\* in length
concatenate_axis1_raises(columns) ==
  \E a, b \in 1..Len(columns) : Len(columns[a]) # Len(columns[b])

\* np.concatenate(columns, axis=1): row r holds element r of every column
concatenate_axis1(columns) ==
  [r \in 1..Len(columns[1]) |-> [c \in 1..Len(columns) |-> columns[c][r]]]

RECURSIVE JoinRows(_)
JoinRows(arrays) ==
  IF arrays = <<>> THEN <<>> ELSE Head(arrays) \o JoinRows(Tail(arrays))

\* np.concatenate(arrays, axis=0) raises ValueError for an empty list (every
\* array here has the same number of columns)
concatenate_axis0_raises(arrays) == arrays = <<>>

concatenate_axis0(arrays) == JoinRows(arrays)

(***************************************************************************)
(* The scan of one field file (the inner for loop of _collect_data).       *)
(* locals is the record of the function's local variables; i is the        *)
(* 0-based index of enumerate.                                             *)
(***************************************************************************)
Marker        == <<"i", "n", "t", "e", "r", "n", "a", "l", "F", "i", "e", "l", "d">>
UniformMarker == <<" ", "u", "n", "i", "f", "o", "r", "m">>
OpenDelim     == <<"(">>
CloseDelim    == <<")">>

RECURSIVE ScanLines(_, _, _)
ScanLines(lines, i, locals) ==
  IF i >= Len(lines) THEN locals
  ELSE
    LET line    == lines[i + 1]
        started == locals.sample_started \/ Contains(Marker, line)
        l1      == [locals EXCEPT !.sample_started = started]
    IN  IF Contains(UniformMarker, line) /\ started
        THEN LET toks == split(line)
                 text == DropLast(toks[Len(toks)])
             IN  IF float_raises(text)
                 THEN [l1 EXCEPT !.raised = ValueError]
                 ELSE [l1 EXCEPT !.uniform_value = float(text),
                                 !.uniform_bool = TRUE]
        ELSE LET l2 == IF Contains(OpenDelim, line) /\ started
                       THEN [l1 EXCEPT !.start = i + 1] ELSE l1
             IN  IF Contains(CloseDelim, line) /\ started
                 THEN [l2 EXCEPT !.end = i]
                 ELSE ScanLines(lines, i + 1, l2)

(***************************************************************************)
(* Bounds of the model.                                                    *)
(***************************************************************************)
NumSpecies == 1      \* species of the mechanism
MaxEntries == 3      \* entries of the working directory in a listing scenario
MaxPoints  == 3      \* values of the longest explicit list
MaxOdd     == 2      \* field files that depart from the usual layout

(***************************************************************************)
(* The working directory after the simulation.                             *)
(*   listing : what Path('.').iterdir() yields, in the order it yields it: *)
(*             records [name, is_dir]                                      *)
(*   files   : files[i][var] describes the file <listing[i].name>/<var>,   *)
(*             a record [kind, n]; its text is FileLines                   *)
(* The value written for point j of field var in entry i is built from the *)
(* three digits i, FieldDigit(var), j, so every value of a scenario names  *)
(* the place it was written at.                                            *)
(***************************************************************************)
AllSpecies == <<"H2", "O2", "N2", "H2O">>
species_names == SubSeq(AllSpecies, 1, NumSpecies)

FieldDigit(var) ==
  CASE var = "T" -> 1 [] var = "p" -> 2 [] var = "H2" -> 3 [] var = "O2" -> 4
    [] var = "N2" -> 5 [] var = "H2O" -> 6

DigitChar(n) ==
  CASE n = 0 -> "0" [] n = 1 -> "1" [] n = 2 -> "2" [] n = 3 -> "3"
    [] n = 4 -> "4" [] n = 5 -> "5" [] n = 6 -> "6" [] n = 7 -> "7"
    [] n = 8 -> "8" [] n = 9 -> "9"

\* temperature and pressure are written as integers, mass fractions with a
\* decimal point
ValueText(i, var, j) ==
  IF var \in {"T", "p"}
  THEN <<DigitChar(i), DigitChar(FieldDigit(var)), DigitChar(j)>>
  ELSE <<DigitChar(i), ".", DigitChar(FieldDigit(var)), DigitChar(j)>>

TrueValue(i, var, j) ==
  IF var \in {"T", "p"}
  THEN Rat(100 * i + 10 * FieldDigit(var) + j, 1)
  ELSE Rat(100 * i + 10 * FieldDigit(var) + j, 100)

HeaderLines ==
  << <<"F", "o", "a", "m", "F", "i", "l", "e">>,
     <<"d", "i", "m", "e", "n", "s", "i", "o", "n", "s", " ", "[", "0", " ", "0", " ", "0", " ", "1", " ", "0", " ", "0", " ", "0", "]", ";">> >>

ListLine == <<"i", "n", "t", "e", "r", "n", "a", "l", "F", "i", "e", "l", "d", " ", " ", " ", "n", "o", "n", "u", "n", "i", "f", "o", "r", "m", " ", "L", "i", "s", "t", "<", "s", "c", "a", "l", "a", "r", ">">>
\* the same line with the keyword misspelt: no internal-values marker
NoMarkerLine == <<"i", "n", "t", "e", "r", "n", "a", "l", "f", "i", "e", "l", "d", " ", " ", " ", "n", "o", "n", "u", "n", "i", "f", "o", "r", "m", " ", "L", "i", "s", "t", "<", "s", "c", "a", "l", "a", "r", ">">>
UniformLine(i, var) ==
  <<"i", "n", "t", "e", "r", "n", "a", "l", "F", "i", "e", "l", "d", " ", " ", " ", "u", "n", "i", "f", "o", "r", "m", " ">> \o ValueText(i, var, 0) \o <<";">>

BoundaryLines(i, var) ==
  << <<"b", "o", "u", "n", "d", "a", "r", "y", "F", "i", "e", "l", "d">>,
     <<"{">>,
     <<" ", " ", " ", " ", "v", "a", "l", "u", "e", " ", "u", "n", "i", "f", "o", "r", "m", " ">> \o ValueText(i, var, 9) \o <<";">>,
     <<"}">> >>

ValueLines(i, var, n) == [j \in 1..n |-> ValueText(i, var, j)]

\* f.readlines() of the file described by f (every line without its newline)
FileLines(f, i, var) ==
  CASE f.kind = "uniform" ->
         HeaderLines \o <<UniformLine(i, var)>> \o BoundaryLines(i, var)
    [] f.kind = "list" ->
         HeaderLines \o <<ListLine, <<DigitChar(f.n)>>, <<"(">>>>
           \o ValueLines(i, var, f.n) \o <<<<")">>, <<";">>>>
           \o BoundaryLines(i, var)
    [] f.kind = "nomarker" ->
         HeaderLines \o <<NoMarkerLine, <<DigitChar(f.n)>>, <<"(">>>>
           \o ValueLines(i, var, f.n) \o <<<<")">>, <<";">>>>
           \o BoundaryLines(i, var)
    [] f.kind = "noclose" ->    \* the file ends inside the list
         HeaderLines \o <<ListLine, <<DigitChar(f.n)>>, <<"(">>>>
           \o ValueLines(i, var, f.n)

FUniform  == [kind |-> "uniform", n |-> 0]
FMissing  == [kind |-> "missing", n |-> 0]
FList(n)  == [kind |-> "list", n |-> n]
FNoMarker == [kind |-> "nomarker", n |-> 2]
FNoClose  == [kind |-> "noclose", n |-> MaxPoints]

FileKinds ==
  {FUniform, FMissing, FNoMarker, FNoClose} \cup {FList(n) : n \in 1..MaxPoints}

(***************************************************************************)
(* State.                                                                  *)
(***************************************************************************)
VARIABLES
  listing,         \* the working directory: entries in iterdir() order
  files,           \* the field files of every entry
  pc,              \* position of the running call
  raised,          \* the exception the last call ended with, or NoException
  time_dirs,       \* _collect_data: the time directories to read (positions
                   \*   in listing)
  ti, vi,          \* _collect_data: current time directory and field (1-based)
  time_arrays,     \* _collect_data: the columns of the current time step
  data_collector,  \* _collect_data: the arrays of the finished time steps
  data_shape,      \* _collect_data: local data_shape
  start, end,      \* _collect_data: locals start and end
  data,            \* self.data: None or Some(array)
  call,            \* the method of the sampler that runs or ran last
  calls,           \* sample() calls started
  completed,       \* sample() calls that returned normally
  returned,        \* what the last get_data() returned: None or Some(array)
  saved,           \* the array file save() wrote: None or Some(array)
  proc,            \* the external process that ended with a non-zero status:
                   \*   [cmd, returncode, out, err], NoProc when there is none
  error,           \* what the exception in flight carries
  args,            \* update_case_parameters: its arguments
  case_params,     \* update_case_parameters: None or Some(the dict returned)
  cwd,             \* the process's current directory, a path
  written,         \* the files the configuration emitters have written (paths)
  trace,           \* the stages the running sample() call has entered, in order
  self_gas_state,  \* self.gas_state, from the configuration file
  fuel,            \* self.fuel, from the configuration file
  out_files,       \* the array files on disk: path -> file content
  output_dir,      \* save(): its argument, None or Some(path)
  tensors,         \* the data tensors allocated: identity -> matrix
  containers,      \* the Container objects: [data (a tensor identity), dataIdx,
                   \*   parent]
  item,            \* what the last Container.__getitem__ gave
  split_args,      \* the last train_test_split: the container it was called on, its
                   \*   length at the call, and split_ratio
  optim,           \* TorchModel.optim is set
  fit_args,        \* TorchModel.fit: its arguments
  fit_pc,          \* TorchModel.fit: position of the call
  epoch,           \* TorchModel.fit: local epoch
  batchIdx,        \* TorchModel.fit: training batches of this epoch done
  dataSize,        \* TorchModel.fit: local dataSize
  steps,           \* TorchModel.step calls of the fit call
  evaluations,     \* TorchModel.evaluate calls of the fit call
  training_hist,   \* TorchModel.fit: local training_hist
  validation_hist, \* TorchModel.fit: local validation_hist
  fit_raised,      \* the exception fit ended with, or NoException
  zero_data,       \* ZeroDSampler: self.data, None or Some(array)
  zero_call,       \* ZeroDSampler: the method that ran last
  zero_raised      \* ZeroDSampler: the exception it ended with, or NoException

apiVars == <<call, calls, returned, saved, proc, error>>
paramVars == <<args, case_params>>
collectVars ==
  <<time_dirs, ti, vi, time_arrays, data_collector, data_shape, start, end>>
fsVars == <<listing, files>>
configVars == <<self_gas_state, fuel>>
pipeVars == <<cwd, written, trace>>
containerVars == <<tensors, containers, item, split_args>>
fitVars ==
  <<optim, fit_args, fit_pc, epoch, batchIdx, dataSize, steps, evaluations,
    training_hist, validation_hist, fit_raised>>
\* the state of the dataset container and of the model, which no method of
\* the sampler touches
learnVars == <<containerVars, fitVars>>
zeroVars == <<zero_data, zero_call, zero_raised>>
samplerVars ==
  <<listing, files, pc, raised, time_dirs, ti, vi, time_arrays, data_collector,
    data_shape, start, end, data, call, calls, completed, returned, saved, proc,
    error, args, case_params, cwd, written, trace, self_gas_state, fuel,
    out_files, output_dir>>

(***************************************************************************)
(* OneDSampler._collect_data, lines 129-133: the fields to read and the    *)
(* time directories.                                                       *)
(***************************************************************************)
\* sample_dims with the species first
sample_dims_species_first == species_names \o <<"T", "p">>

\* ['T', 'p'] + Solution(...).species_names
sample_dims == <<"T", "p">> \o species_names

RECURSIVE InsertStable(_, _)
\* x goes after every element whose key is not greater than its own
InsertStable(x, s) ==
  IF s = <<>> THEN <<x>>
  ELSE IF RatLess(x.key, Head(s).key) THEN <<x>> \o s
  ELSE <<Head(s)>> \o InsertStable(x, Tail(s))

RECURSIVE sorted(_)
\* Python's sorted(items, key=...): ascending by key, stable
sorted(s) ==
  IF s = <<>> THEN <<>>
  ELSE InsertStable(s[Len(s)], sorted(SubSeq(s, 1, Len(s) - 1)))

RECURSIVE NumericDirs(_, _)
\* [d for d in iterdir() if d.is_dir() and is_numeric_string(d.name)], each
\* with its sort key float(d.name)
NumericDirs(l, i) ==
  IF i > Len(l) THEN <<>>
  ELSE (IF l[i].is_dir /\ is_numeric_string(l[i].name)
        THEN <<[key |-> float(l[i].name), item |-> i]>> ELSE <<>>)
         \o NumericDirs(l, i + 1)

\* Python's  s[1:]
SkipFirst(s) == IF s = <<>> THEN <<>> ELSE Tail(s)

\* sorted([...], key=lambda d: float(d.name))[1:]
TimeDirs(l) ==
  LET ordered == SkipFirst(sorted(NumericDirs(l, 1)))
  IN  [k \in 1..Len(ordered) |-> ordered[k].item]

(***************************************************************************)
(* _collect_data, lines 141-167: one field file of one time directory.     *)
(* st holds the locals that survive from file to file (data_shape, start,  *)
(* end); -1 stands for a local that was never assigned.  The result holds  *)
(* the exception raised (or NoException), the column and the new locals.   *)
(***************************************************************************)
Unbound == -1

FieldResult(exc, column, shape, s, e) ==
  [raised |-> exc, dim_array |-> column, data_shape |-> shape,
   start |-> s, end |-> e]

\* lines 161-165, for the locals l the scan ended with; text is lines[start:end]
BuildColumn(l, text, st) ==
  IF l.raised # NoException
  THEN FieldResult(l.raised, <<>>, st.data_shape, l.start, l.end)
  ELSE IF l.uniform_bool
  THEN FieldResult(NoException, ones_times(st.data_shape, l.uniform_value),
                   st.data_shape, l.start, l.end)
  ELSE IF l.start = Unbound \/ l.end = Unbound
  THEN FieldResult("UnboundLocalError", <<>>, st.data_shape, l.start, l.end)
  ELSE IF loadtxt_raises(text)
  THEN FieldResult(ValueError, <<>>, st.data_shape, l.start, l.end)
  ELSE FieldResult(NoException, Flatten(loadtxt(text)),
                   Len(Flatten(loadtxt(text))), l.start, l.end)

ScanResult(lines, st) ==
  ScanLines(lines, 0,
            [sample_started |-> FALSE, uniform_bool |-> FALSE,
             uniform_value |-> <<0, 1>>, start |-> st.start, end |-> st.end,
             raised |-> NoException])

\* lines[start:end] taken from the line after the first value
SliceOf_skipping_first(lines, l) ==
  IF l.start = Unbound \/ l.end = Unbound THEN <<>>
  ELSE Slice(lines, l.start + 1, l.end)

\* line 164: lines[start:end]
SliceOf(lines, l) ==
  IF l.start = Unbound \/ l.end = Unbound THEN <<>>
  ELSE Slice(lines, l.start, l.end)

ParseScanned(lines, l, st) == BuildColumn(l, SliceOf(lines, l), st)

\* lines 145-165
ParseLines(lines, st) == ParseScanned(lines, ScanResult(lines, st), st)

\* ReadField with an absent file taken for a field of zeros
ReadFieldSkippingMissing(f, i, var, st) ==
  IF f.kind = "missing"
  THEN FieldResult(NoException, ones_times(st.data_shape, <<0, 1>>),
                   st.data_shape, st.start, st.end)
  ELSE ParseLines(FileLines(f, i, var), st)

\* lines 141-143, then ParseLines: open() raises for a file that is absent
ReadField(f, i, var, st) ==
  IF f.kind = "missing"
  THEN FieldResult("FileNotFoundError", <<>>, st.data_shape, st.start, st.end)
  ELSE ParseLines(FileLines(f, i, var), st)

RECURSIVE MinLen(_)
MinLen(columns) ==
  IF Len(columns) = 1 THEN Len(columns[1])
  ELSE LET m == MinLen(Tail(columns))
       IN  IF Len(columns[1]) < m THEN Len(columns[1]) ELSE m

\* TimeArray with every column cut to the shortest
TimeArrayTruncating(columns) ==
  [raised |-> NoException,
   rows   |-> [r \in 1..MinLen(columns) |->
                 [c \in 1..Len(columns) |-> columns[c][r]]]]

\* line 169: the array of one time step
TimeArray(columns) ==
  IF concatenate_axis1_raises(columns)
  THEN [raised |-> ValueError, rows |-> <<>>]
  ELSE [raised |-> NoException, rows |-> concatenate_axis1(columns)]

\* line 172: the array of the run
FinalArray(arrays) ==
  IF concatenate_axis0_raises(arrays)
  THEN [raised |-> ValueError, rows |-> <<>>]
  ELSE [raised |-> NoException, rows |-> concatenate_axis0(arrays)]

project_root == <<"FlameBench">>                  \* get_path_from_root()
working_dir == project_root \o <<"oneDFlame">>    \* get_path_from_root("oneDFlame")

\* Path('.').iterdir() in directory dir: listing is the case working
\* directory; no other directory the process is in holds a directory with a
\* numeric name
Listing(dir) == IF dir = working_dir THEN listing ELSE <<>>

(***************************************************************************)
(* _collect_data as steps: CollectBegin (lines 129-136), CollectField (one *)
(* turn of the inner loop, lines 140-167), CollectTimeStep (lines 169-170) *)
(* and CollectFinish (line 172).  An exception ends the call with pc =     *)
(* "raised" and leaves self.data as it was.                                *)
(***************************************************************************)
CollectBegin ==
  /\ pc = "collect"
  /\ time_dirs' = TimeDirs(Listing(cwd))
  /\ data_collector' = <<>>
  /\ data_shape' = 0
  /\ start' = Unbound
  /\ end' = Unbound
  /\ ti' = 1
  /\ vi' = 1
  /\ time_arrays' = <<>>
  /\ pc' = IF TimeDirs(Listing(cwd)) = <<>> THEN "finish" ELSE "field"
  /\ trace' = Append(trace, "_collect_data")
  /\ UNCHANGED <<zeroVars, learnVars, configVars, output_dir, cwd, written, out_files, paramVars, fsVars, data, raised, apiVars, completed>>

\* the effect of one turn of the inner loop whose result is r
FieldDone(r) ==
  /\ start' = r.start
  /\ end' = r.end
  /\ data_shape' = r.data_shape
  /\ IF r.raised # NoException
     THEN /\ pc' = "raised"
          /\ raised' = r.raised
          /\ UNCHANGED <<time_arrays, vi>>
     ELSE /\ time_arrays' = Append(time_arrays, r.dim_array)
          /\ raised' = raised
          /\ IF vi = Len(sample_dims)
             THEN pc' = "timestep" /\ vi' = vi
             ELSE pc' = "field" /\ vi' = vi + 1

CollectField ==
  /\ pc = "field"
  /\ FieldDone(ReadField(files[time_dirs[ti]][sample_dims[vi]], time_dirs[ti],
                         sample_dims[vi],
                         [data_shape |-> data_shape, start |-> start, end |-> end]))
  /\ UNCHANGED <<zeroVars, learnVars, configVars, output_dir, pipeVars, out_files, paramVars, fsVars, data, time_dirs, ti, data_collector, apiVars, completed>>

\* a time step that publishes the rows assembled so far in self.data
CollectTimeStep_publishing ==
  /\ pc = "timestep"
  /\ LET r == TimeArray(time_arrays)
     IN  IF r.raised # NoException
         THEN /\ pc' = "raised"
              /\ raised' = r.raised
              /\ UNCHANGED <<data_collector, time_arrays, ti, vi, data>>
         ELSE /\ data_collector' = Append(data_collector, r.rows)
              /\ data' = Some(concatenate_axis0(Append(data_collector, r.rows)))
              /\ time_arrays' = <<>>
              /\ vi' = 1
              /\ ti' = ti + 1
              /\ raised' = raised
              /\ pc' = IF ti = Len(time_dirs) THEN "finish" ELSE "field"
  /\ UNCHANGED <<zeroVars, learnVars, configVars, output_dir, pipeVars, out_files, paramVars, fsVars, time_dirs, data_shape, start, end, apiVars,
                 completed>>

CollectTimeStep ==
  /\ pc = "timestep"
  /\ LET r == TimeArray(time_arrays)
     IN  IF r.raised # NoException
         THEN /\ pc' = "raised"
              /\ raised' = r.raised
              /\ UNCHANGED <<data_collector, time_arrays, ti, vi>>
         ELSE /\ data_collector' = Append(data_collector, r.rows)
              /\ time_arrays' = <<>>
              /\ vi' = 1
              /\ ti' = ti + 1
              /\ raised' = raised
              /\ pc' = IF ti = Len(time_dirs) THEN "finish" ELSE "field"
  /\ UNCHANGED <<zeroVars, learnVars, configVars, output_dir, pipeVars, out_files, paramVars, fsVars, data, time_dirs, data_shape, start, end, apiVars,
                 completed>>

CollectFinish ==
  /\ pc = "finish"
  /\ LET r == FinalArray(data_collector)
     IN  IF r.raised # NoException
         THEN /\ pc' = "raised"
              /\ raised' = r.raised
              /\ UNCHANGED <<data, completed>>
         ELSE /\ pc' = "done"
              /\ raised' = NoException
              /\ data' = Some(r.rows)
              /\ completed' = IF call = "sample" THEN completed + 1 ELSE completed
  /\ UNCHANGED <<zeroVars, learnVars, configVars, output_dir, pipeVars, out_files, paramVars, fsVars, collectVars, apiVars>>

CollectNext == CollectBegin \/ CollectField \/ CollectTimeStep \/ CollectFinish

(***************************************************************************)
(* The working directories the parser is run on.                           *)
(***************************************************************************)
FieldNames == {sample_dims[k] : k \in 1..Len(sample_dims)}

\* the usual layout of a time directory: pressure uniform, the rest lists
UsualFile(var) == IF var = "p" THEN FUniform ELSE FList(2)
UsualFiles == [var \in FieldNames |-> UsualFile(var)]
InitialFiles == [var \in FieldNames |-> FUniform]

\* An entry carries, beside what the code reads (name, is_dir), the time its
\* name stands for: time is Some(number), or None for a name that is no number.
Dir(name, time)     == [name |-> name, is_dir |-> TRUE, time |-> time]
Regular(name, time) == [name |-> name, is_dir |-> FALSE, time |-> time]

EntryPool ==
  { Dir(<<"0">>, Some(0)), Dir(<<"2">>, Some(2)), Dir(<<"1", "0">>, Some(10)),
    Dir(<<"0", ".", "0">>, Some(0)), Dir(<<"-", "1">>, Some(-1)),
    Dir(<<"c", "o", "n", "s", "t", "a", "n", "t">>, None), Regular(<<"5">>, Some(5)) }

\* any entries in any iterdir() order, each time directory in the usual layout
ListingScenarios ==
  { [listing |-> l, files |-> [i \in 1..Len(l) |-> UsualFiles]] :
      l \in { s \in UNION {[1..n -> EntryPool] : n \in 0..MaxEntries} :
                \A a, b \in 1..Len(s) : a # b => s[a] # s[b] } }

\* directories 0, 1, 2 with up to MaxOdd field files of the two time steps
\* departing from the usual layout
OddPlaces == {2, 3} \X FieldNames
FileScenarios ==
  { [listing |-> <<Dir(<<"0">>, Some(0)), Dir(<<"1">>, Some(1)),
                   Dir(<<"2">>, Some(2))>>,
     files   |-> [i \in 1..3 |->
                    IF i = 1 THEN InitialFiles
                    ELSE [var \in FieldNames |->
                            IF <<i, var>> \in DOMAIN odd THEN odd[<<i, var>>]
                            ELSE UsualFile(var)]]] :
      odd \in UNION { [places -> FileKinds] :
                        places \in {q \in SUBSET OddPlaces : Cardinality(q) <= MaxOdd} } }

Scenarios == ListingScenarios \cup FileScenarios

(***************************************************************************)
(* SpecCollect: _collect_data run once on every scenario.                  *)
(***************************************************************************)
vars == <<samplerVars, containerVars, fitVars, zeroVars>>

\* where the program was started
StartDir == <<"home">>
\* calculate_laminar_flame_properties, lines 67-68
required_params ==
  {"initial_temperature", "initial_pressure", "fuel_composition",
   "oxidizer_composition", "equivalence_ratio"}
CompleteGasState == [is_dict |-> TRUE, keys |-> required_params]

NoItem == [container |-> 0, idx |-> 0, raised |-> NoException, features |-> <<>>,
           label |-> <<>>]
NoSplit == [container |-> 0, len |-> 0, split_ratio |-> <<>>]
NoFitArgs == [epochs |-> 0, batch |-> 1, train_len |-> 0, valid_len |-> 0,
              train_device |-> "cpu", valid_device |-> "cpu"]

\* nothing emitted, nothing saved, no sample() call under way
SamplerIdle ==
  /\ cwd = StartDir
  /\ written = {}
  /\ trace = <<>>
  /\ out_files = <<>>
  /\ output_dir = None

\* ZeroDSampler(config): BaseSampler.__init__, base_sampler.py lines 5-7
ZeroIdle ==
  /\ zero_data = None
  /\ zero_call = "__init__"
  /\ zero_raised = NoException

\* no container and no model at work
LearnIdle ==
  /\ tensors = <<>>
  /\ containers = <<>>
  /\ item = NoItem
  /\ split_args = NoSplit
  /\ optim = FALSE
  /\ fit_args = NoFitArgs
  /\ fit_pc = "idle"
  /\ epoch = 0
  /\ batchIdx = 0
  /\ dataSize = 0
  /\ steps = 0
  /\ evaluations = 0
  /\ training_hist = <<>>
  /\ validation_hist = <<>>
  /\ fit_raised = NoException

NoArgs  == [mechanism_path |-> "", gas_state |-> "", flame_speed |-> <<>>,
            flame_thickness |-> <<>>]
NoProc  == [cmd |-> "none", returncode |-> 0, out |-> "", err |-> ""]
NoError == [cmd |-> "none", returncode |-> 0, stdout |-> None, stderr |-> None]

CollectInit ==
  /\ \E sc \in Scenarios : listing = sc.listing /\ files = sc.files
  /\ pc = "collect"
  /\ raised = NoException
  /\ time_dirs = <<>>
  /\ ti = 1
  /\ vi = 1
  /\ time_arrays = <<>>
  /\ data_collector = <<>>
  /\ data_shape = 0
  /\ start = Unbound
  /\ end = Unbound
  /\ data = None
  /\ call = "_collect_data"
  /\ calls = 0
  /\ completed = 0
  /\ returned = None
  /\ saved = None
  /\ proc = NoProc
  /\ error = NoError
  /\ args = NoArgs
  /\ case_params = None
  /\ self_gas_state = CompleteGasState
  /\ fuel = "H2"
  /\ cwd = working_dir
  /\ written = {}
  /\ trace = <<>>
  /\ out_files = <<>>
  /\ output_dir = None
  /\ LearnIdle
  /\ ZeroIdle

SpecCollect == CollectInit /\ [][CollectNext]_vars

(***************************************************************************)
(* What the scenarios hold, read off the scenario and not off the parser.  *)
(***************************************************************************)
\* the field order the mechanism declares
DeclaredFields == <<"T", "p">> \o SubSeq(AllSpecies, 1, NumSpecies)

Entries == 1..Len(listing)
IsTimeDir(i) == listing[i].is_dir /\ listing[i].time # None
NonZeroTimeDirs == {i \in Entries : IsTimeDir(i) /\ listing[i].time[1] # 0}

\* the non-zero time directories by ascending time
AscendingNonZero ==
  CHOOSE s \in [1..Cardinality(NonZeroTimeDirs) -> NonZeroTimeDirs] :
    /\ \A a, b \in DOMAIN s : a < b => listing[s[a]].time[1] < listing[s[b]].time[1]

\* every time directory is in the usual layout (the listing scenarios)
UsualLayout == \A i \in Entries : files[i] = UsualFiles

\* the rows of entry i in the usual layout
UsualBlock(i) ==
  [j \in 1..2 |->
     [k \in 1..Len(DeclaredFields) |->
        TrueValue(i, DeclaredFields[k],
                  IF UsualFile(DeclaredFields[k]) = FUniform THEN 0 ELSE j)]]

\* the entry a row was read from, by the hundreds digit of its temperature
EntryOfRow(row) == row[1][1] \div 100

Returned == pc = "done"
Failed   == pc = "raised"

Kind(d, var) == files[d][var].kind
IsList(d, var) == Kind(d, var) = "list"
WellFormed(d, var) == Kind(d, var) \in {"list", "uniform"}

\* C1: the assembled array is one block per non-zero time directory, in
\* ascending order of the directory's time.
C1_BlocksAscending ==
  (Returned /\ UsualLayout) =>
    data = Some(JoinRows([k \in 1..Cardinality(NonZeroTimeDirs) |->
                            UsualBlock(AscendingNonZero[k])]))

\* C2: the directories that contribute rows are exactly the time directories
\* whose time is not zero.
C2_ZeroExcluded ==
  (Returned /\ UsualLayout) =>
    {EntryOfRow(data[1][r]) : r \in 1..Len(data[1])} = NonZeroTimeDirs

\* a time step of lists of one length n and uniform fields, with a list
WellFormedStep(d, n) ==
  /\ \A var \in FieldNames : WellFormed(d, var)
  /\ \E var \in FieldNames : IsList(d, var)
  /\ \A var \in FieldNames : IsList(d, var) => files[d][var].n = n

\* C3: a time step with a list of n values is assembled into n rows, every
\* uniform field filling its column with n copies of its value, wherever the
\* uniform field stands in the field order.
C3_UniformBroadcast ==
  \A k \in 1..Len(time_dirs) : \A n \in 1..MaxPoints :
    WellFormedStep(time_dirs[k], n) =>
      /\ ~(Failed /\ ti = k)
      /\ Len(data_collector) >= k =>
           /\ Len(data_collector[k]) = n
           /\ \A r \in 1..n : \A c \in 1..Len(DeclaredFields) :
                Kind(time_dirs[k], DeclaredFields[c]) = "uniform" =>
                  data_collector[k][r][c]
                    = TrueValue(time_dirs[k], DeclaredFields[c], 0)

\* C4: no array is returned when a field file that was read has no marker
\* line or no closing delimiter.
C4_MalformedFails ==
  Returned =>
    \A k \in 1..Len(time_dirs) : \A var \in FieldNames :
      Kind(time_dirs[k], var) \notin {"nomarker", "noclose"}

\* two lists of one time step differ in length
LengthsDiffer(d) ==
  \E v, w \in FieldNames :
    IsList(d, v) /\ IsList(d, w) /\ files[d][v].n # files[d][w].n

\* C5: when two lists of one time step differ in length the call neither
\* returns nor sets the data, and the step's concatenation raises ValueError.
C5_LengthMismatchFails ==
  /\ (\E k \in 1..Len(time_dirs) : LengthsDiffer(time_dirs[k])) =>
       ~Returned /\ data = None
  /\ (Failed /\ Len(time_arrays) = Len(DeclaredFields)
        /\ LengthsDiffer(time_dirs[ti])) => raised = ValueError

C5_Witness ==
  /\ Failed /\ raised = ValueError
  /\ Len(time_arrays) = Len(DeclaredFields)
  /\ LengthsDiffer(time_dirs[ti])
  /\ \E v, w \in 1..Len(time_arrays) : Len(time_arrays[v]) # Len(time_arrays[w])

C7_MissingFileFails ==
  /\ Returned =>
       \A k \in 1..Len(time_dirs) : \A var \in FieldNames :
         Kind(time_dirs[k], var) # "missing"
  /\ (Failed /\ ti <= Len(time_dirs) /\ Len(time_arrays) = vi - 1
        /\ Kind(time_dirs[ti], DeclaredFields[vi]) = "missing")
       => raised = "FileNotFoundError"

C7_Witness ==
  /\ Failed /\ raised = "FileNotFoundError"
  /\ ti = 2 /\ vi = Len(DeclaredFields) /\ Len(time_arrays) = vi - 1
  /\ Kind(time_dirs[ti], DeclaredFields[vi]) = "missing"

(***************************************************************************)
(* Floating point.  A Python float is modelled as a binary floating-point  *)
(* number with MantBits significant bits and round-to-nearest-even (the    *)
(* float of the program has 53): [s, m, e] stands for s * m * 2^e with     *)
(* 2^(MantBits-1) <= m < 2^MantBits, and for zero when s = 0.  Exponents   *)
(* are not bounded: overflow and underflow are left out.                   *)
(***************************************************************************)
MantBits == 5        \* significant bits of a float
MaxExp   == 1        \* exponents of the arguments: -MaxExp..MaxExp

RECURSIVE Pow2(_)
Pow2(k) == IF k <= 0 THEN 1 ELSE 2 * Pow2(k - 1)

RECURSIVE RoundNE(_, _, _)
\* the float nearest to (num / den) * 2^e, ties to even, for num, den > 0
RoundNE(num, den, e) ==
  IF num < Pow2(MantBits - 1) * den THEN RoundNE(2 * num, den, e - 1)
  ELSE IF num >= Pow2(MantBits) * den THEN RoundNE(num, 2 * den, e + 1)
  ELSE IF 2 * (num % den) > den \/ (2 * (num % den) = den /\ (num \div den) % 2 = 1)
  THEN (IF (num \div den) + 1 = Pow2(MantBits)
        THEN [s |-> 1, m |-> Pow2(MantBits - 1), e |-> e + 1]
        ELSE [s |-> 1, m |-> (num \div den) + 1, e |-> e])
  ELSE [s |-> 1, m |-> num \div den, e |-> e]

\* float(n) for an int n > 0
FromInt(n) == RoundNE(n, 1, 0)
\* a * b and a / b for floats a, b > 0
fmul(a, b) == RoundNE(a.m * b.m, 1, a.e + b.e)
fdiv(a, b) == RoundNE(a.m, b.m, a.e - b.e)

FloatZero == [s |-> 0, m |-> 0, e |-> 0]
IsPositive(x) == x.s = 1

(***************************************************************************)
(* oneDflame_setup.update_case_parameters, lines 123-197: the exception    *)
(* raised, or the dict returned.                                           *)
(***************************************************************************)
\* lines 150-178
DerivedParameters(mechanism_path, gas_state, flame_speed, flame_thickness, domain_width, chemical_time_scale) ==
  [mechanism_path      |-> mechanism_path,
   gas_state           |-> gas_state,
   flame_speed         |-> flame_speed,
   flame_thickness     |-> flame_thickness,
   domain_width        |-> domain_width,
   domain_length       |-> fmul(domain_width, FromInt(10)),
   half_domain_length  |-> fdiv(fmul(domain_width, FromInt(10)), FromInt(2)),
   chemical_time_scale |-> chemical_time_scale,
   sample_time_steps   |-> 100,
   estimated_time_step |-> fdiv(chemical_time_scale, FromInt(10)),
   estimated_sim_time  |-> fmul(fdiv(chemical_time_scale, FromInt(10)),
                                FromInt(100)),
   estimated_write_time_step |-> fdiv(chemical_time_scale, FromInt(10))]

\* update_case_parameters with the domain length taken as 50 flame thicknesses
update_case_parameters_fifty(mechanism_path, gas_state, flame_speed, flame_thickness) ==
  IF mechanism_path = "" \/ ~IsPositive(flame_speed) \/ ~IsPositive(flame_thickness)
  THEN [raised |-> ValueError, value |-> None]
  ELSE [raised |-> NoException,
        value  |-> Some([DerivedParameters(mechanism_path, gas_state, flame_speed,
                           flame_thickness, fmul(flame_thickness, FromInt(5)),
                           fdiv(flame_thickness, flame_speed))
                         EXCEPT !.domain_length =
                                  fmul(flame_thickness, FromInt(50))])]

\* update_case_parameters dividing by the flame speed before it checks the sign
update_case_parameters_dividing_first(mechanism_path, gas_state, flame_speed, flame_thickness) ==
  IF mechanism_path = ""
  THEN [raised |-> ValueError, value |-> None]
  ELSE IF flame_speed.s = 0
  THEN [raised |-> "ZeroDivisionError", value |-> None]
  ELSE IF ~IsPositive(flame_speed) \/ ~IsPositive(flame_thickness)
  THEN [raised |-> ValueError, value |-> None]
  ELSE [raised |-> NoException,
        value  |-> Some(DerivedParameters(mechanism_path, gas_state, flame_speed,
                          flame_thickness, fmul(flame_thickness, FromInt(5)),
                          fdiv(flame_thickness, flame_speed)))]

update_case_parameters(mechanism_path, gas_state, flame_speed, flame_thickness) ==
  IF mechanism_path = ""                   \* lines 137-138
  THEN [raised |-> ValueError, value |-> None]
  ELSE IF ~IsPositive(flame_speed)         \* lines 143-144
  THEN [raised |-> ValueError, value |-> None]
  ELSE IF ~IsPositive(flame_thickness)     \* lines 146-147
  THEN [raised |-> ValueError, value |-> None]
  ELSE [raised |-> NoException,
        value  |-> Some(DerivedParameters(mechanism_path, gas_state, flame_speed,
                          flame_thickness, fmul(flame_thickness, FromInt(5)),
                          fdiv(flame_thickness, flame_speed)))]

ParamsDone(r) ==
  /\ pc' = IF r.raised # NoException THEN "raised" ELSE "done"
  /\ raised' = r.raised
  /\ case_params' = r.value

UpdateCaseParameters ==
  /\ pc = "params"
  /\ ParamsDone(update_case_parameters(args.mechanism_path, args.gas_state,
                                       args.flame_speed, args.flame_thickness))
  /\ UNCHANGED <<zeroVars, learnVars, configVars, output_dir, pipeVars, out_files, args, fsVars, collectVars, data, completed, apiVars>>

\* the arguments: every positive float of the exponent range, zero and a
\* negative number; a mechanism path or the empty string; a gas state
PositiveFloats ==
  [s : {1}, m : Pow2(MantBits - 1)..(Pow2(MantBits) - 1), e : (-MaxExp)..MaxExp]
ArgFloats ==
  PositiveFloats \cup {FloatZero, [s |-> -1, m |-> Pow2(MantBits - 1), e |-> 0]}

ParamsInit ==
  /\ args \in [mechanism_path : {"mechanisms/h2.yaml"},
               gas_state : {"lean", "rich"},
               flame_speed : ArgFloats, flame_thickness : ArgFloats]
            \cup [mechanism_path : {""}, gas_state : {"lean"},
                  flame_speed : {FromInt(1)}, flame_thickness : {FromInt(1)}]
  /\ case_params = None
  /\ pc = "params"
  /\ call = "update_case_parameters"
  /\ raised = NoException
  /\ listing = <<>>
  /\ files = <<>>
  /\ time_dirs = <<>>
  /\ ti = 1
  /\ vi = 1
  /\ time_arrays = <<>>
  /\ data_collector = <<>>
  /\ data_shape = 0
  /\ start = Unbound
  /\ end = Unbound
  /\ data = None
  /\ calls = 0
  /\ completed = 0
  /\ returned = None
  /\ saved = None
  /\ proc = NoProc
  /\ error = NoError
  /\ self_gas_state = CompleteGasState
  /\ fuel = "H2"
  /\ SamplerIdle
  /\ LearnIdle
  /\ ZeroIdle

SpecParams == ParamsInit /\ [][UpdateCaseParameters]_vars

(***************************************************************************)
(* The sampler's public methods.  A method is called when no call is in    *)
(* progress (the program is single-threaded); get_data and save are one    *)
(* step, sample() walks through _run_case_setup and _collect_data.         *)
(***************************************************************************)
MaxCalls == 2        \* sample() calls of a run

Idle == pc \in {"idle", "done", "raised"}

\* subprocess.run(cmd, check=True, ...) for a process that ended with
\* p.returncode after writing p.out and p.err; capture says where its streams
\* go: "pipe" (capture_output=True), "devnull" or "inherit" (no argument).
\* CalledProcessError carries the streams that were captured, else None.
subprocess_run(p, capture) ==
  [raised     |-> IF p.returncode # 0 THEN "CalledProcessError" ELSE NoException,
   cmd        |-> p.cmd,
   returncode |-> p.returncode,
   stdout     |-> IF capture = "pipe" THEN Some(p.out) ELSE None,
   stderr     |-> IF capture = "pipe" THEN Some(p.err) ELSE None]

\* run_Allrun without capture_output
run_Allrun_inherit(p) == subprocess_run(p, "inherit")

\* line 102
run_chmod(p) == subprocess_run(p, "inherit")
\* lines 104-111: the except clause logs and re-raises the same exception
run_Allrun(p) == subprocess_run(p, "pipe")
\* lines 119-124
run_reconstructPar(p) == subprocess_run(p, "devnull")

\* what an external process can do
Outcomes(cmd) ==
  [cmd : {cmd}, returncode : {0, 1}, out : {"", "stdout text"},
   err : {"", "stderr text"}]

\* the working directories a simulation run leaves: directories 0, 1, 2 in
\* the usual layout but for the temperature file of the last
RunScenarios ==
  {sc \in FileScenarios :
     \A i \in 2..3 : \A var \in FieldNames :
       sc.files[i][var] # UsualFile(var) => (i = 3 /\ var = "T")}

\* get_data without its check
get_data_unchecked(d) == FALSE

\* self.data is None
get_data_raises(d) == d = None
save_raises(d) == d = None

\* the external process did p and subprocess.run gave r; pc = next follows
Invoked(p, r, next) ==
  /\ proc' = IF p.returncode # 0 THEN p ELSE proc
  /\ IF r.raised # NoException
     THEN /\ pc' = "raised"
          /\ raised' = r.raised
          /\ error' = [cmd |-> r.cmd, returncode |-> r.returncode,
                       stdout |-> r.stdout, stderr |-> r.stderr]
     ELSE /\ pc' = next
          /\ UNCHANGED <<raised, error>>

\* sample(): line 43-45, entering _run_case_setup
Sample ==
  /\ Idle
  /\ calls < MaxCalls
  /\ call' = "sample"
  /\ calls' = calls + 1
  /\ pc' = "setup"
  /\ raised' = NoException
  /\ proc' = NoProc
  /\ error' = NoError
  /\ trace' = <<>>
  /\ UNCHANGED <<zeroVars, learnVars, configVars, output_dir, cwd, written, out_files, paramVars, fsVars,
                 collectVars, data, completed, returned, saved>>

(***************************************************************************)
(* Paths are sequences of names.  A relative path is resolved against the  *)
(* current directory of the process at the time of the call.               *)
(***************************************************************************)
Resolve(dir, path) == dir \o path

IsPrefix(pre, path) ==
  Len(pre) <= Len(path) /\ SubSeq(path, 1, Len(pre)) = pre

\* the file names of the species fields: f"Y{species}"
YName(species) ==
  CASE species = "H2" -> "YH2" [] species = "O2" -> "YO2"
    [] species = "N2" -> "YN2" [] species = "H2O" -> "YH2O"

\* the relative paths the four emitters open for writing
control_dict_path == <<"system", "controlDict">>
zero_dir == <<"oneDFlame", "0">>
zero_files ==
  {zero_dir \o <<"T">>, zero_dir \o <<"p">>}
    \cup {zero_dir \o <<YName(species_names[k])>> : k \in 1..Len(species_names)}
set_fields_path == <<"oneDFlame", "system", "setFieldsDict">>
cantera_mech_path == <<"oneDFlame", "constant", "CanteraMechanismFile">>

(***************************************************************************)
(* oneDflame_setup.calculate_laminar_flame_properties, lines 15-120.       *)
(* gas_state is [is_dict, keys]; exists says whether the mechanism file is *)
(* there; solve is what Cantera does when asked for the flame.             *)
(***************************************************************************)
NoFlame(exc) == [raised |-> exc, flame_speed |-> FloatZero, flame_thickness |-> FloatZero]

\* the required keys looked up only when Cantera has built the flame
calculate_laminar_flame_properties_lenient(mechanism_path, gs, exists, solve) ==
  IF mechanism_path = "" \/ ~gs.is_dict THEN NoFlame(ValueError)
  ELSE IF ~exists THEN NoFlame("FileNotFoundError")
  ELSE IF solve.raised # NoException THEN NoFlame(solve.raised)
  ELSE solve

calculate_laminar_flame_properties(mechanism_path, gs, exists, solve) ==
  IF mechanism_path = "" THEN NoFlame(ValueError)                \* lines 36-37
  ELSE IF ~gs.is_dict THEN NoFlame(ValueError)                   \* lines 39-40
  ELSE IF ~exists THEN NoFlame("FileNotFoundError")              \* lines 59-64
  ELSE IF required_params \ gs.keys # {} THEN NoFlame(ValueError) \* lines 67-71
  ELSE IF solve.raised # NoException THEN NoFlame(solve.raised)  \* lines 73-120
  ELSE solve                                                     \* line 116

\* what the flame solver can do: a flame, a flame without thickness, an error
SolveOutcomes ==
  {[raised |-> NoException, flame_speed |-> FromInt(1), flame_thickness |-> FromInt(1)],
   [raised |-> NoException, flame_speed |-> FromInt(1), flame_thickness |-> FloatZero],
   NoFlame("CanteraError")}

\* the gas_state entries of a configuration file: complete, lacking one of
\* the required keys, lacking all of them (no gas_state entry: the default
\* {} of line 39), or not a mapping
GasStates ==
  {[is_dict |-> TRUE, keys |-> required_params \ lacking] :
     lacking \in {{}, required_params} \cup {{k} : k \in required_params}}
    \cup {[is_dict |-> FALSE, keys |-> {}]}
Fuels == {"H2", "unknown"}

mechanism_path_for_cantera == "mechanisms/h2.yaml"

(***************************************************************************)
(* OneDSampler._run_case_setup, lines 49-124, stage by stage.  A stage     *)
(* that raises ends the sample() call: nothing catches the exception.      *)
(***************************************************************************)
\* a stage whose exception is swallowed
StageDone_continuing(exc, next) ==
  /\ raised' = exc
  /\ pc' = next

\* the stage has ended with exc, or normally when exc is NoException
StageDone(exc, next) ==
  /\ raised' = exc
  /\ pc' = IF exc # NoException THEN "raised" ELSE next

\* lines 54-84: chdir to the project root; the mechanism path of the
\* configuration lies under it and is made relative
Setup ==
  /\ pc = "setup"
  /\ cwd' = project_root
  /\ pc' = "properties"
  /\ UNCHANGED <<zeroVars, learnVars, configVars, output_dir, written, trace, out_files, paramVars, fsVars,
                 collectVars, data, completed, call, calls, returned, saved, proc,
                 error, raised>>

PropertiesDone(r) ==
  /\ StageDone(r.raised, "parameters")
  /\ args' = IF r.raised # NoException THEN args
             ELSE [mechanism_path |-> mechanism_path_for_cantera,
                   gas_state |-> self_gas_state,
                   flame_speed |-> r.flame_speed,
                   flame_thickness |-> r.flame_thickness]

\* lines 86-88
CalculateProperties ==
  /\ pc = "properties"
  /\ trace' = Append(trace, "calculate_laminar_flame_properties")
  /\ \E exists \in BOOLEAN : \E solve \in SolveOutcomes :
       PropertiesDone(calculate_laminar_flame_properties(
                        mechanism_path_for_cantera, self_gas_state, exists, solve))
  /\ UNCHANGED <<zeroVars, learnVars, configVars, output_dir, cwd, written, out_files, case_params, fsVars,
                 collectVars, data, completed, call, calls, returned, saved, proc,
                 error>>

ParametersDone(r) ==
  /\ StageDone(r.raised, "config")
  /\ case_params' = r.value

\* lines 90-92
DeriveParameters ==
  /\ pc = "parameters"
  /\ trace' = Append(trace, "update_case_parameters")
  /\ ParametersDone(update_case_parameters(args.mechanism_path, args.gas_state,
                                           args.flame_speed, args.flame_thickness))
  /\ UNCHANGED <<zeroVars, learnVars, configVars, output_dir, cwd, written, out_files, args, fsVars,
                 collectVars, data, completed, call, calls, returned, saved, proc,
                 error>>

\* an emitter that opens the relative paths for writing, or fails with exc
\* before it has opened any
Emit(name, paths, exc, next) ==
  /\ trace' = Append(trace, name)
  /\ StageDone(exc, next)
  /\ written' = IF exc # NoException THEN written
                ELSE written \cup {Resolve(cwd, path) : path \in paths}

EmitErrors == {NoException, "OSError"}

\* line 94: update_one_d_sample_config, lines 200-290
UpdateOneDSampleConfig ==
  /\ pc = "config"
  /\ \E exc \in EmitErrors :
       Emit("update_one_d_sample_config", {control_dict_path}, exc, "zero")
  /\ UNCHANGED <<zeroVars, learnVars, configVars, output_dir, cwd, out_files, paramVars, fsVars,
                 collectVars, data, completed, call, calls, returned, saved, proc,
                 error>>

\* line 95: create_0_species_files, lines 293-479
Create0SpeciesFiles ==
  /\ pc = "zero"
  /\ \E exc \in EmitErrors \cup {"FileNotFoundError"} :
       Emit("create_0_species_files", zero_files, exc, "setfields")
  /\ UNCHANGED <<zeroVars, learnVars, configVars, output_dir, cwd, out_files, paramVars, fsVars,
                 collectVars, data, completed, call, calls, returned, saved, proc,
                 error>>

\* line 96: update_set_fields_dict, lines 482-590
UpdateSetFieldsDict ==
  /\ pc = "setfields"
  /\ \E exc \in EmitErrors \cup {"FileNotFoundError"} :
       Emit("update_set_fields_dict", {set_fields_path}, exc, "mechanism")
  /\ UNCHANGED <<zeroVars, learnVars, configVars, output_dir, cwd, out_files, paramVars, fsVars,
                 collectVars, data, completed, call, calls, returned, saved, proc,
                 error>>

\* lines 97-99: update_cantera_mechanism, lines 593-646, then chdir to the
\* working directory
UpdateCanteraMechanism ==
  /\ pc = "mechanism"
  /\ \E exc \in EmitErrors \cup {"FileNotFoundError"} :
       /\ Emit("update_cantera_mechanism", {cantera_mech_path}, exc, "chmod")
       /\ cwd' = IF exc # NoException THEN cwd ELSE working_dir
  /\ UNCHANGED <<zeroVars, learnVars, configVars, output_dir, out_files, paramVars, fsVars,
                 collectVars, data, completed, call, calls, returned, saved, proc,
                 error>>

\* line 102
Chmod ==
  /\ pc = "chmod"
  /\ trace' = Append(trace, "chmod")
  /\ \E p \in Outcomes("chmod") : Invoked(p, run_chmod(p), "allrun")
  /\ UNCHANGED <<zeroVars, learnVars, configVars, output_dir, cwd, written, out_files, paramVars, fsVars,
                 collectVars, data, completed, call, calls, returned, saved>>

\* lines 104-111; the run leaves its time directories in the working directory
Allrun ==
  /\ pc = "allrun"
  /\ trace' = Append(trace, "Allrun")
  /\ \E p \in Outcomes("Allrun") : Invoked(p, run_Allrun(p), "reconstruct")
  /\ \E sc \in RunScenarios : listing' = sc.listing /\ files' = sc.files
  /\ UNCHANGED <<zeroVars, learnVars, configVars, output_dir, cwd, written, out_files, paramVars,
                 collectVars, data, completed, call, calls, returned, saved>>

\* lines 114-124
ReconstructPar ==
  /\ pc = "reconstruct"
  /\ trace' = Append(trace, "reconstructPar")
  /\ \E p \in Outcomes("reconstructPar") :
       Invoked(p, run_reconstructPar(p), "collect")
  /\ UNCHANGED <<zeroVars, learnVars, configVars, output_dir, cwd, written, out_files, paramVars, fsVars,
                 collectVars, data, completed, call, calls, returned, saved>>

\* get_data(), lines 175-178
GetData ==
  /\ Idle
  /\ call' = "get_data"
  /\ IF get_data_raises(data)
     THEN pc' = "raised" /\ raised' = ValueError /\ returned' = None
     ELSE pc' = "done" /\ raised' = NoException /\ returned' = data
  /\ proc' = NoProc
  /\ error' = NoError
  /\ UNCHANGED <<zeroVars, learnVars, configVars, output_dir, pipeVars, out_files, paramVars, fsVars, collectVars, data, completed, calls, saved>>

\* np.save with the values laid out column by column
np_save_column_major(array) ==
  [descr |-> "<f8", fortran_order |-> FALSE,
   shape |-> <<Len(array), IF array = <<>> THEN 0 ELSE Len(array[1])>>,
   payload |-> [k \in 1..(Len(array) * (IF array = <<>> THEN 0 ELSE Len(array[1]))) |->
                  array[((k - 1) % Len(array)) + 1][((k - 1) \div Len(array)) + 1]]]

\* np.save(path, array) for a 2-D float array: the header and the values,
\* eight bytes each as they are in memory, row by row
np_save(array) ==
  [descr |-> "<f8", fortran_order |-> FALSE,
   shape |-> <<Len(array), IF array = <<>> THEN 0 ELSE Len(array[1])>>,
   payload |-> Flatten(array)]

\* np.load(path): the values of the payload in the shape of the header
np_load(file) ==
  [r \in 1..file.shape[1] |->
     [c \in 1..file.shape[2] |-> file.payload[(r - 1) * file.shape[2] + c]]]

\* f"{self.fuel}-1Dflame.npy", line 186
filename(f) == IF f = "H2" THEN "H2-1Dflame.npy" ELSE "unknown-1Dflame.npy"

\* lines 184-187: os.path.join(output_dir or get_path_from_root("1DFlameRawData"),
\* filename); a relative output_dir is taken from the current directory
output_path(dir, f) ==
  (IF dir = None THEN project_root \o <<"1DFlameRawData">> ELSE Resolve(cwd, dir[1]))
    \o <<filename(f)>>

\* the files after content has been written at path
WriteFile(fs, path, content) ==
  [q \in (DOMAIN fs) \cup {path} |-> IF q = path THEN content ELSE fs[q]]

OutputDirs == {None, Some(<<"out">>)}

\* save(output_dir), lines 180-189
Save ==
  /\ Idle
  /\ call' = "save"
  /\ \E dir \in OutputDirs :
       /\ output_dir' = dir
       /\ IF save_raises(data)
          THEN /\ pc' = "raised" /\ raised' = ValueError /\ saved' = saved
               /\ out_files' = out_files
          ELSE /\ pc' = "done" /\ raised' = NoException /\ saved' = data
               /\ out_files' = WriteFile(out_files, output_path(dir, fuel),
                                         np_save(data[1]))
  /\ returned' = None
  /\ proc' = NoProc
  /\ error' = NoError
  /\ UNCHANGED <<zeroVars, learnVars, configVars, pipeVars, paramVars, fsVars, collectVars,
                 data, completed, calls>>

Init ==
  /\ listing = <<>>
  /\ files = <<>>
  /\ pc = "idle"
  /\ raised = NoException
  /\ time_dirs = <<>>
  /\ ti = 1
  /\ vi = 1
  /\ time_arrays = <<>>
  /\ data_collector = <<>>
  /\ data_shape = 0
  /\ start = Unbound
  /\ end = Unbound
  /\ data = None
  /\ call = "__init__"
  /\ calls = 0
  /\ completed = 0
  /\ returned = None
  /\ saved = None
  /\ proc = NoProc
  /\ error = NoError
  /\ args = NoArgs
  /\ case_params = None
  /\ self_gas_state \in GasStates
  /\ fuel \in Fuels
  /\ SamplerIdle
  /\ LearnIdle
  /\ ZeroIdle

Next ==
  \/ Sample \/ Setup \/ CalculateProperties \/ DeriveParameters
  \/ UpdateOneDSampleConfig \/ Create0SpeciesFiles \/ UpdateSetFieldsDict
  \/ UpdateCanteraMechanism \/ Chmod \/ Allrun \/ ReconstructPar
  \/ CollectBegin \/ CollectField \/ CollectTimeStep \/ CollectFinish
  \/ GetData \/ Save

Spec == Init /\ [][Next]_vars


(***************************************************************************)
(* Claims on the sampler's methods and on the case parameters.             *)
(***************************************************************************)
\* C8: while no sample() call has returned normally, get_data() and save()
\* end with ValueError, nothing has been returned and nothing has been saved.
C8_NoResultBeforeSample ==
  completed = 0 =>
    /\ returned = None
    /\ saved = None
    /\ (call \in {"get_data", "save"}) => (Failed /\ raised = ValueError)

\* get_data() after a sample() call that raised while assembling its array
C8_Witness ==
  /\ call = "get_data" /\ Failed /\ raised = ValueError
  /\ completed = 0 /\ calls >= 1
  /\ data_collector # <<>>

Nearest(x, num, den, k) ==
  IF x.e >= k
  THEN 2 * Abs(x.m * den * Pow2(x.e - k) - num) <= den * Pow2(x.e - k)
  ELSE 2 * Abs(x.m * den - num * Pow2(k - x.e)) <= den

ValidArgs == IsPositive(args.flame_speed) /\ IsPositive(args.flame_thickness)
               /\ args.mechanism_path # ""

\* the arguments come back unchanged in the dict
PassedThrough(cp) ==
  /\ cp.flame_speed = args.flame_speed
  /\ cp.flame_thickness = args.flame_thickness
  /\ cp.mechanism_path = args.mechanism_path
  /\ cp.gas_state = args.gas_state

\* C10 as stated: the domain length is 50 flame thicknesses.
C10_FiftyThicknesses ==
  (call = "update_case_parameters" /\ Returned /\ ValidArgs) =>
    case_params[1].domain_length = fmul(args.flame_thickness, FromInt(50))

\* C10, amended: for positive flame speed and thickness the call returns;
\* domain_width is 5 x flame_thickness, domain_length 10 x domain_width,
\* chemical_time_scale flame_thickness / flame_speed, estimated_time_step
\* chemical_time_scale / 10 and estimated_sim_time estimated_time_step x 100,
\* each rounded to the nearest float; half_domain_length is exactly half of
\* domain_length; the arguments are passed through.
C10_DerivedParameters ==
  (call = "update_case_parameters" /\ pc # "params" /\ ValidArgs) =>
    /\ Returned /\ case_params # None
    /\ PassedThrough(case_params[1])
    /\ Nearest(case_params[1].domain_width, 5 * args.flame_thickness.m, 1,
               args.flame_thickness.e)
    /\ Nearest(case_params[1].domain_length,
               10 * case_params[1].domain_width.m, 1,
               case_params[1].domain_width.e)
    /\ case_params[1].half_domain_length.m = case_params[1].domain_length.m
    /\ case_params[1].half_domain_length.e = case_params[1].domain_length.e - 1
    /\ Nearest(case_params[1].chemical_time_scale, args.flame_thickness.m,
               args.flame_speed.m, args.flame_thickness.e - args.flame_speed.e)
    /\ Nearest(case_params[1].estimated_time_step,
               case_params[1].chemical_time_scale.m, 10,
               case_params[1].chemical_time_scale.e)
    /\ Nearest(case_params[1].estimated_sim_time,
               100 * case_params[1].estimated_time_step.m, 1,
               case_params[1].estimated_time_step.e)

\* a returned dict whose domain length is not the float nearest to 50 flame
\* thicknesses
C10_Witness ==
  /\ call = "update_case_parameters" /\ Returned /\ ValidArgs
  /\ case_params[1].domain_length # fmul(args.flame_thickness, FromInt(50))
  /\ case_params[1].domain_width # FromInt(5)

(***************************************************************************)
(* Claim C11.  update_case_parameters called with flame_speed <= 0 or      *)
(* flame_thickness <= 0 (zero included) fails with the ValueError of its   *)
(* validation and returns no parameter bundle; the error is never the one  *)
(* of a division by a zero flame speed.                                    *)
(***************************************************************************)
NonPositiveArgs ==
  ~IsPositive(args.flame_speed) \/ ~IsPositive(args.flame_thickness)

C11_NonPositiveRejected ==
  (call = "update_case_parameters" /\ pc # "params" /\ NonPositiveArgs)
    => /\ pc = "raised"
       /\ raised = ValueError
       /\ case_params = None

\* a call with a valid mechanism path and a zero flame speed has failed
C11_Witness ==
  /\ call = "update_case_parameters"
  /\ pc = "raised"
  /\ args.mechanism_path # ""
  /\ args.flame_speed = FloatZero
  /\ IsPositive(args.flame_thickness)

(***************************************************************************)
(* dataset_tools/container.py: Container.  self.data is a reference to a   *)
(* tensor; tensors holds the tensors that exist, a tensor's identity being *)
(* its position.  dataIdx holds 0-based row numbers.                       *)
(***************************************************************************)
MaxRows == 2         \* rows of a data source
NCols == 3           \* columns of a data source: features and the label
MaxContainers == 5   \* Container objects of a run

\* the value at row r (0-based) and column c (1-based) of every data source
Cell(r, c) == 10 * (r + 1) + c
DataSource(n) == [r \in 1..n |-> [c \in 1..NCols |-> Cell(r - 1, c)]]

\* x[idx] of numpy for a 1-D x: negative indices count from the end
NormIndex(n, idx) == IF idx < 0 THEN idx + n ELSE idx
index_raises(n, idx) == NormIndex(n, idx) < 0 \/ NormIndex(n, idx) >= n

\* x[:k] and x[k:] of numpy for k >= 0
Take(x, k) == SubSeq(x, 1, IF k > Len(x) THEN Len(x) ELSE k)
Drop(x, k) == SubSeq(x, (IF k > Len(x) THEN Len(x) ELSE k) + 1, Len(x))

\* int(x) for a float x >= 0
IntOf(x) ==
  IF x.s = 0 THEN 0
  ELSE IF x.e >= 0 THEN x.m * Pow2(x.e) ELSE x.m \div Pow2(0 - x.e)

\* line 48
cutoffIdx(split_ratio, rows) ==
  IF split_ratio.s = 0 \/ rows = 0 THEN 0 ELSE IntOf(fmul(split_ratio, FromInt(rows)))

\* line 40
range(n) == [k \in 1..n |-> k - 1]

\* np.random.permutation(n): any ordering of 0..n-1
permutations(n) ==
  {x \in [1..n -> 0..(n - 1)] : \A a, b \in 1..n : x[a] = x[b] => a = b}

\* getModelLabels taking the first column
getModelLabels_first(matrix, idx) == <<matrix[idx + 1][1]>>

\* lines 93-95: self.data[idx, :-1]
getModelFeatures(matrix, idx) == SubSeq(matrix[idx + 1], 1, Len(matrix[idx + 1]) - 1)
\* lines 98-100: self.data[idx, [-1]]
getModelLabels(matrix, idx) == <<matrix[idx + 1][Len(matrix[idx + 1])]>>

\* lines 78-90
getitem(matrix, dataIdx, idx) ==
  IF index_raises(Len(dataIdx), idx)
  THEN [raised |-> "IndexError", features |-> <<>>, label |-> <<>>]
  ELSE [raised   |-> NoException,
        features |-> getModelFeatures(matrix, dataIdx[NormIndex(Len(dataIdx), idx) + 1]),
        label    |-> getModelLabels(matrix, dataIdx[NormIndex(Len(dataIdx), idx) + 1])]

\* copy.deepcopy(self), lines 50 and 53: a new Container whose data is a new
\* tensor, fresh, with the contents of the old one
deepcopy(c, fresh) == [data |-> fresh, dataIdx |-> containers[c].dataIdx, parent |-> c]

\* the split ratios tried
SplitRatios ==
  {FloatZero, RoundNE(1, 3, 0), RoundNE(1, 2, 0), RoundNE(3, 4, 0), FromInt(1)}

\* train_test_split(split_ratio), lines 43-56, whose copies are train and valid
Split(c, cut, train, valid) ==
  /\ tensors' = tensors \o <<tensors[containers[c].data], tensors[containers[c].data]>>
  /\ containers' = containers \o
       << [train EXCEPT !.dataIdx = Take(train.dataIdx, cut)],
          [valid EXCEPT !.dataIdx = Drop(valid.dataIdx, cut)] >>

TrainTestSplit ==
  /\ Len(containers) + 2 <= MaxContainers
  /\ \E c \in DOMAIN containers : \E split_ratio \in SplitRatios :
       /\ Split(c, cutoffIdx(split_ratio, Len(tensors[containers[c].data])),
                deepcopy(c, Len(tensors) + 1), deepcopy(c, Len(tensors) + 2))
       /\ split_args' = [container |-> c, len |-> Len(containers[c].dataIdx),
                         split_ratio |-> split_ratio]
  /\ UNCHANGED <<zeroVars, samplerVars, fitVars, item>>

\* shuffle(seed), lines 59-64
Shuffle ==
  /\ \E c \in DOMAIN containers :
       \E x \in permutations(Len(tensors[containers[c].data])) :
         containers' = [containers EXCEPT ![c].dataIdx = x]
  /\ UNCHANGED <<zeroVars, samplerVars, fitVars, tensors, item, split_args>>

\* the item asked of container c at idx
ItemOf(c, idx, r) ==
  [container |-> c, idx |-> idx, raised |-> r.raised, features |-> r.features,
   label |-> r.label]

\* container[idx], lines 78-90
GetItem ==
  /\ \E c \in DOMAIN containers : \E idx \in (-1)..MaxRows :
       item' = ItemOf(c, idx, getitem(tensors[containers[c].data],
                                      containers[c].dataIdx, idx))
  /\ UNCHANGED <<zeroVars, samplerVars, fitVars, tensors, containers, split_args>>

\* Container(datasrc), lines 12-40, for an array of n rows
ContainerInit ==
  /\ \E n \in 0..MaxRows :
       /\ tensors = <<DataSource(n)>>
       /\ containers = <<[data |-> 1, dataIdx |-> range(n), parent |-> 0]>>
  /\ item = NoItem
  /\ split_args = NoSplit
  /\ optim = FALSE
  /\ fit_args = NoFitArgs
  /\ fit_pc = "idle"
  /\ epoch = 0
  /\ batchIdx = 0
  /\ dataSize = 0
  /\ steps = 0
  /\ evaluations = 0
  /\ training_hist = <<>>
  /\ validation_hist = <<>>
  /\ fit_raised = NoException
  /\ listing = <<>>
  /\ files = <<>>
  /\ pc = "idle"
  /\ raised = NoException
  /\ time_dirs = <<>>
  /\ ti = 1
  /\ vi = 1
  /\ time_arrays = <<>>
  /\ data_collector = <<>>
  /\ data_shape = 0
  /\ start = Unbound
  /\ end = Unbound
  /\ data = None
  /\ call = "__init__"
  /\ calls = 0
  /\ completed = 0
  /\ returned = None
  /\ saved = None
  /\ proc = NoProc
  /\ error = NoError
  /\ args = NoArgs
  /\ case_params = None
  /\ self_gas_state = CompleteGasState
  /\ fuel = "H2"
  /\ SamplerIdle
  /\ ZeroIdle

ContainerNext == TrainTestSplit \/ Shuffle \/ GetItem

SpecContainer == ContainerInit /\ [][ContainerNext]_vars

(***************************************************************************)
(* Claim C12.  shuffle and train_test_split act on dataIdx only: no tensor *)
(* is modified, no tensor is created besides the one of the constructor,   *)
(* and the containers a split returns hold their parent's tensor.          *)
(***************************************************************************)
DataUnmodified ==
  \A t \in DOMAIN tensors : tensors[t] = DataSource(Len(tensors[1]))

C12_IndexOnly ==
  /\ DataUnmodified
  /\ Len(tensors) = 1
  /\ \A c \in DOMAIN containers :
       containers[c].parent # 0 =>
         containers[c].data = containers[containers[c].parent].data

(***************************************************************************)
(* Claim C13.  Whatever shuffles and splits came before, item i of a       *)
(* container, 0 <= i < len(container), is the features and the label of    *)
(* one and the same data row, row dataIdx[i]: the features are its columns *)
(* but the last, the label is its last column.                             *)
(***************************************************************************)
AskedInRange ==
  /\ item.container # 0
  /\ 0 <= item.idx
  /\ item.idx < Len(containers[item.container].dataIdx)

\* the item is the features and the label of row dataIdx[idx]
ItemIsRow ==
  /\ item.raised = NoException
  /\ item.features =
       [c \in 1..(NCols - 1) |->
          Cell(containers[item.container].dataIdx[item.idx + 1], c)]
  /\ item.label =
       <<Cell(containers[item.container].dataIdx[item.idx + 1], NCols)>>

Subdirectory(name) ==
  IF name \in {"controlDict", "setFieldsDict"} THEN "system"
  ELSE IF name = "CanteraMechanismFile" THEN "constant"
  ELSE "0"

InCase(f) ==
  /\ Len(f) = Len(working_dir) + 2
  /\ IsPrefix(working_dir, f)
  /\ f[Len(working_dir) + 1] = Subdirectory(f[Len(f)])

C14_EmittedInCase ==
  /\ \A f \in written : InCase(f)
  /\ pc \in {"chmod", "allrun", "reconstruct"} => cwd = working_dir

(***************************************************************************)
(* Claim C15.  After a successful sample(), save(output_dir) leaves the    *)
(* file <output_dir>/<fuel>-1Dflame.npy (the default directory when none   *)
(* is given), and loading that file gives an array of the shape and the    *)
(* values of the array get_data() returns.                                 *)
(***************************************************************************)
ExpectedFile ==
  (IF output_dir = None THEN project_root \o <<"1DFlameRawData">>
   ELSE cwd \o output_dir[1])
    \o <<IF fuel = "H2" THEN "H2-1Dflame.npy" ELSE "unknown-1Dflame.npy">>

PipelineOrder ==
  <<"calculate_laminar_flame_properties", "update_case_parameters",
    "update_one_d_sample_config", "create_0_species_files",
    "update_set_fields_dict", "update_cantera_mechanism",
    "chmod", "Allrun", "reconstructPar", "_collect_data">>

StageFailed == call = "sample" /\ raised # NoException

C16_StagesInOrder ==
  /\ [](call = "sample" => IsPrefix(trace, PipelineOrder))
  /\ [](StageFailed => pc = "raised")
  /\ [][StageFailed => (trace' = trace \/ calls' # calls)]_vars

\* a sample() call that failed while emitting the configuration files, and
\* one that went through every stage
C16_Witness ==
  /\ call = "sample"
  /\ \/ pc = "raised" /\ Len(trace) = 4 /\ written # {}
     \/ pc = "done" /\ trace = PipelineOrder /\ calls = 2

(***************************************************************************)
(* Claim C17.  The row count of a time step comes from the non-uniform     *)
(* fields of that step alone: an assembled step has the length of a list   *)
(* of its own, and a step whose fields are all uniform is not assembled    *)
(* into any row, whatever the steps before it held.                        *)
(***************************************************************************)
ListLengths(d) == {files[d][var].n : var \in {v \in FieldNames : IsList(d, v)}}

AllWellFormed ==
  \A k \in 1..Len(time_dirs) : \A var \in FieldNames : WellFormed(time_dirs[k], var)

C17_RowCountOwnStep ==
  AllWellFormed =>
    \A k \in 1..Len(data_collector) :
      IF ListLengths(time_dirs[k]) = {}
      THEN Len(data_collector[k]) = 0
      ELSE Len(data_collector[k]) \in ListLengths(time_dirs[k])

(***************************************************************************)
(* Claim C18.  The column parsed from a list file holds exactly the values *)
(* of the lines between the opening and the closing delimiter after the    *)
(* marker, one per line and in file order; the column of a uniform file    *)
(* holds only the value of its internal-values line.  No header line and   *)
(* no line of the boundary block contributes.                              *)
(***************************************************************************)
ColumnAsWritten(d, var, column) ==
  /\ IsList(d, var) =>
       column = [j \in 1..files[d][var].n |-> TrueValue(d, var, j)]
  /\ Kind(d, var) = "uniform" =>
       \A r \in 1..Len(column) : column[r] = TrueValue(d, var, 0)

C18_ValuesBetweenDelimiters ==
  \A v \in 1..Len(time_arrays) :
    ColumnAsWritten(time_dirs[ti], DeclaredFields[v], time_arrays[v])

\* a time step read to its end, with a list of MaxPoints values and a
\* uniform field of several rows
C18_Witness ==
  /\ Len(time_arrays) = Len(DeclaredFields)
  /\ \E v, w \in 1..Len(time_arrays) :
       /\ IsList(time_dirs[ti], DeclaredFields[v])
       /\ Len(time_arrays[v]) = MaxPoints
       /\ Kind(time_dirs[ti], DeclaredFields[w]) = "uniform"
       /\ Len(time_arrays[w]) >= 2

(***************************************************************************)
(* Claim C19.  When the gas_state of the configuration lacks one of the    *)
(* five required keys, sample() fails in the property calculation: no      *)
(* configuration file has been written, no external command has been run   *)
(* and no later stage has been entered.                                    *)
(***************************************************************************)
LacksKey == self_gas_state.is_dict /\ required_params \ self_gas_state.keys # {}

C19_MissingKeyFailsFirst ==
  LacksKey =>
    /\ written = {}
    /\ completed = 0
    /\ \A k \in 1..Len(trace) : trace[k] = "calculate_laminar_flame_properties"
    /\ (call = "sample" /\ trace # <<>>) =>
         (Failed /\ raised \in {ValueError, "FileNotFoundError"})

\* a second sample() call has failed on a configuration without the
\* equivalence ratio
C19_Witness ==
  /\ self_gas_state.is_dict
  /\ required_params \ self_gas_state.keys = {"equivalence_ratio"}
  /\ call = "sample" /\ Failed /\ raised = ValueError
  /\ trace = <<"calculate_laminar_flame_properties">>
  /\ calls = 2

(***************************************************************************)
(* nn_framework/model.py: TorchModel.fit, lines 25-55.  A container is     *)
(* seen through its length and its device; a training step (lines 58-69)   *)
(* and the evaluation (lines 72-95) are taken to succeed on the tensors    *)
(* they are given.                                                         *)
(***************************************************************************)
MaxEpochs == 2       \* epochs asked of fit
MaxBatch == 2        \* batch size asked of fit
MaxLen == 3          \* length of the training and of the validation container

Devices == {"cpu", "cuda"}

\* the batches of a loader that drops a partial last batch
NumBatches_drop_last(length, batch) == length \div batch

\* len(DataLoader(ds, batch)): the batches of one pass, the last one partial
\* when batch does not divide the length
NumBatches(length, batch) == (length + batch - 1) \div batch

\* data[0].shape[0] of batch number k (0-based)
BatchSize(length, batch, k) ==
  IF (k + 1) * batch <= length THEN batch ELSE length - k * batch

\* lines 27-32: the exception fit raises before its loop, if any
fit_precheck(has_optim, a) ==
  IF ~has_optim THEN "AssertionError"                           \* line 27
  ELSE IF a.train_device # a.valid_device THEN "AssertionError"  \* line 28
  ELSE IF a.batch < 1 THEN ValueError                            \* line 31
  ELSE IF a.valid_len < 1 THEN ValueError                        \* line 32
  ELSE NoException

\* set_optim, lines 98-99
SetOptim ==
  /\ fit_pc = "idle"
  /\ ~optim
  /\ optim' = TRUE
  /\ UNCHANGED <<zeroVars, samplerVars, containerVars, fit_args, fit_pc, epoch, batchIdx,
                 dataSize, steps, evaluations, training_hist, validation_hist,
                 fit_raised>>

\* fit(trainDS, validDS, epochs, batch), lines 25-35
Fit ==
  /\ fit_pc = "idle"
  /\ \E a \in [epochs : 0..MaxEpochs, batch : 0..MaxBatch, train_len : 0..MaxLen,
               valid_len : 0..MaxLen, train_device : Devices,
               valid_device : Devices] :
       /\ fit_args' = a
       /\ fit_raised' = fit_precheck(optim, a)
       /\ fit_pc' = IF fit_precheck(optim, a) # NoException THEN "raised" ELSE "epoch"
  /\ epoch' = 0
  /\ batchIdx' = 0
  /\ dataSize' = 0
  /\ steps' = 0
  /\ evaluations' = 0
  /\ training_hist' = <<>>
  /\ validation_hist' = <<>>
  /\ UNCHANGED <<zeroVars, samplerVars, containerVars, optim>>

\* lines 37-42, and line 55 when range(epochs) is exhausted
EpochBegin ==
  /\ fit_pc = "epoch"
  /\ IF epoch >= fit_args.epochs
     THEN fit_pc' = "done" /\ UNCHANGED <<batchIdx, dataSize>>
     ELSE fit_pc' = "batch" /\ batchIdx' = 0 /\ dataSize' = 0
  /\ UNCHANGED <<zeroVars, samplerVars, containerVars, optim, fit_args, epoch, steps,
                 evaluations, training_hist, validation_hist, fit_raised>>

\* lines 43-48: one training batch
Step ==
  /\ fit_pc = "batch"
  /\ batchIdx < NumBatches(fit_args.train_len, fit_args.batch)
  /\ steps' = steps + 1
  /\ dataSize' = dataSize + BatchSize(fit_args.train_len, fit_args.batch, batchIdx)
  /\ batchIdx' = batchIdx + 1
  /\ UNCHANGED <<zeroVars, samplerVars, containerVars, optim, fit_args, fit_pc, epoch,
                 evaluations, training_hist, validation_hist, fit_raised>>

\* lines 50-53: the end of an epoch; running_loss / dataSize divides by zero
\* when the training loader gave no batch
Evaluate ==
  /\ fit_pc = "batch"
  /\ batchIdx >= NumBatches(fit_args.train_len, fit_args.batch)
  /\ evaluations' = evaluations + 1
  /\ IF dataSize = 0
     THEN /\ fit_pc' = "raised"
          /\ fit_raised' = "ZeroDivisionError"
          /\ UNCHANGED <<epoch, training_hist, validation_hist>>
     ELSE /\ fit_pc' = "epoch"
          /\ fit_raised' = fit_raised
          /\ epoch' = epoch + 1
          /\ training_hist' = Append(training_hist, [epoch |-> epoch, dataSize |-> dataSize])
          /\ validation_hist' = Append(validation_hist, [epoch |-> epoch, samples |-> fit_args.valid_len])
  /\ UNCHANGED <<zeroVars, samplerVars, containerVars, optim, fit_args, batchIdx, dataSize,
                 steps>>

\* TorchModel(), lines 15-22
FitInit ==
  /\ tensors = <<>>
  /\ containers = <<>>
  /\ item = NoItem
  /\ split_args = NoSplit
  /\ optim = FALSE
  /\ fit_args = NoFitArgs
  /\ fit_pc = "idle"
  /\ epoch = 0
  /\ batchIdx = 0
  /\ dataSize = 0
  /\ steps = 0
  /\ evaluations = 0
  /\ training_hist = <<>>
  /\ validation_hist = <<>>
  /\ fit_raised = NoException
  /\ listing = <<>>
  /\ files = <<>>
  /\ pc = "idle"
  /\ raised = NoException
  /\ time_dirs = <<>>
  /\ ti = 1
  /\ vi = 1
  /\ time_arrays = <<>>
  /\ data_collector = <<>>
  /\ data_shape = 0
  /\ start = Unbound
  /\ end = Unbound
  /\ data = None
  /\ call = "__init__"
  /\ calls = 0
  /\ completed = 0
  /\ returned = None
  /\ saved = None
  /\ proc = NoProc
  /\ error = NoError
  /\ args = NoArgs
  /\ case_params = None
  /\ self_gas_state = CompleteGasState
  /\ fuel = "H2"
  /\ SamplerIdle
  /\ ZeroIdle

FitNext == SetOptim \/ Fit \/ EpochBegin \/ Step \/ Evaluate

\* the loop of fit is ordinary sequential code: once entered it goes on
SpecFit ==
  FitInit /\ [][FitNext]_vars /\ WF_vars(EpochBegin \/ Step \/ Evaluate)

(***************************************************************************)
(* Claim C20.  fit with an optimizer and non-empty containers ends after   *)
(* exactly epochs passes over all the training batches, one evaluation at  *)
(* the end of every epoch, and returns two histories of epochs entries;    *)
(* without an optimizer it fails before any training step.                 *)
(***************************************************************************)
FitEnded == fit_pc \in {"done", "raised"}
NonEmpty == fit_args.train_len >= 1 /\ fit_args.valid_len >= 1

\* the counts of a fit call that went through all its epochs
RanAllEpochs ==
  /\ fit_pc = "done"
  /\ epoch = fit_args.epochs
  /\ steps = fit_args.epochs * NumBatches(fit_args.train_len, fit_args.batch)
  /\ evaluations = fit_args.epochs
  /\ Len(training_hist) = fit_args.epochs
  /\ Len(validation_hist) = fit_args.epochs
  /\ \A k \in 1..Len(training_hist) : training_hist[k].dataSize = fit_args.train_len

\* in the course of the loop: one evaluation and one history entry per
\* finished epoch, and every finished epoch a full pass
OncePerEpoch ==
  /\ evaluations = epoch
  /\ Len(training_hist) = epoch
  /\ Len(validation_hist) = epoch
  /\ steps = epoch * NumBatches(fit_args.train_len, fit_args.batch) + (IF fit_pc = "batch" THEN batchIdx ELSE 0)
  /\ \A k \in 1..Len(training_hist) :
       /\ training_hist[k].epoch = k - 1
       /\ training_hist[k].dataSize = fit_args.train_len

WithoutOptimizerFails ==
  (FitEnded /\ ~optim) => (fit_pc = "raised" /\ steps = 0 /\ evaluations = 0)

\* C20 as stated: an optimizer and non-empty containers are enough
C20_FitRunsEpochs ==
  /\ (FitEnded /\ optim /\ NonEmpty) => RanAllEpochs
  /\ WithoutOptimizerFails

SameDeviceAndBatch ==
  fit_args.train_device = fit_args.valid_device /\ fit_args.batch >= 1

\* C20 for containers on one device and a batch size of at least 1
C20_FitRunsEpochsOnOneDevice ==
  /\ []((FitEnded /\ optim /\ NonEmpty /\ SameDeviceAndBatch) => RanAllEpochs)
  /\ []((fit_pc \in {"epoch", "batch"} /\ NonEmpty) => OncePerEpoch)
  /\ []WithoutOptimizerFails
  /\ (fit_pc = "epoch") ~> FitEnded

\* a fit of MaxEpochs epochs whose last batch is a partial one has returned
C20_Witness ==
  /\ fit_pc = "done"
  /\ fit_args.epochs = MaxEpochs
  /\ fit_args.train_len = 3 /\ fit_args.batch = 2
  /\ steps = 2 * MaxEpochs
  /\ Len(validation_hist) = MaxEpochs

(***************************************************************************)
(* Claim C21.  The two containers of a train_test_split index disjoint     *)
(* sets of rows whose union is the index set of the container that was     *)
(* split, and shuffles of either of them keep it so.                       *)
(***************************************************************************)
\* the rows a container indexes
Rows(c) == {containers[c].dataIdx[k] : k \in DOMAIN containers[c].dataIdx}

\* train_test_split appends its training and its validation container: the
\* training containers are at the even positions
IsTraining(c) == c % 2 = 0 /\ c + 1 \in DOMAIN containers

C21_SplitPartition ==
  \A c \in DOMAIN containers :
    IsTraining(c) =>
      /\ Rows(c) \cap Rows(c + 1) = {}
      /\ Rows(c) \cup Rows(c + 1) = Rows(containers[c].parent)

(***************************************************************************)
(* Claim C22.  train_test_split(r) of a container of length n, one that a  *)
(* split returned included, returns a training container of length         *)
(* floor(r x n) and a validation container of length n minus that.         *)
(***************************************************************************)
\* the step is a train_test_split
Splits == Len(containers') = Len(containers) + 2

\* the lengths of the two containers returned last, against the length the
\* split container had; r x n is the floating-point product
SplitLengths ==
  /\ Len(containers[Len(containers) - 1].dataIdx) =
       cutoffIdx(split_args.split_ratio, split_args.len)
  /\ Len(containers[Len(containers)].dataIdx) =
       split_args.len - cutoffIdx(split_args.split_ratio, split_args.len)

C22_SplitLengths == [][Splits => SplitLengths']_vars

(***************************************************************************)
(* Claim C23.  self.data changes only in the step that ends a sample()     *)
(* call normally, after every stage and every time directory, and becomes  *)
(* the array of all the time steps; a call that fails at any stage leaves  *)
(* self.data as it was.                                                    *)
(***************************************************************************)
\* the step ends the pipeline of a sample() call normally
PipelineCompletes ==
  /\ call = "sample"
  /\ trace = PipelineOrder
  /\ pc = "finish" /\ pc' = "done"
  /\ raised' = NoException
  /\ Len(data_collector) = Len(time_dirs)

C23_DataOnlyOnCompletion ==
  [][data' # data =>
       (PipelineCompletes /\ data' = Some(concatenate_axis0(data_collector)))]_vars

\* a second sample() call has failed with time steps assembled, and self.data
\* is still the array of the first call
C23_Witness ==
  /\ call = "sample" /\ pc = "raised"
  /\ calls = 2 /\ completed = 1
  /\ data_collector # <<>>
  /\ data # None
  /\ data # Some(concatenate_axis0(data_collector))

(***************************************************************************)
(* clean(), lines 191-194, and _collect_data() called on its own.  Neither *)
(* changes the current directory: ./Allclean is looked up in it and        *)
(* Path('.') is it.  The Allclean script is not part of the sources; a run *)
(* that succeeds is taken to remove what the simulation left.              *)
(***************************************************************************)
\* line 193: subprocess.run(["./Allclean"], check=True)
run_Allclean(p) == subprocess_run(p, "inherit")

\* clean(), line 192
Clean ==
  /\ Idle
  /\ call' = "clean"
  /\ pc' = "clean"
  /\ raised' = NoException
  /\ proc' = NoProc
  /\ error' = NoError
  /\ UNCHANGED <<zeroVars, learnVars, configVars, output_dir, pipeVars, out_files, paramVars,
                 fsVars, collectVars, data, completed, calls, returned, saved>>

\* line 193: there is an ./Allclean in the case working directory only
RunAllclean ==
  /\ pc = "clean"
  /\ IF cwd = working_dir
     THEN \E p \in Outcomes("Allclean") :
            /\ Invoked(p, run_Allclean(p), "done")
            /\ listing' = IF p.returncode = 0 THEN <<>> ELSE listing
            /\ files' = IF p.returncode = 0 THEN <<>> ELSE files
     ELSE /\ pc' = "raised"
          /\ raised' = "FileNotFoundError"
          /\ UNCHANGED <<proc, error, fsVars>>
  /\ UNCHANGED <<zeroVars, learnVars, configVars, output_dir, pipeVars, out_files, paramVars,
                 collectVars, data, completed, call, calls, returned, saved>>

\* _collect_data() called by the user, line 129: self.mechanism_path_for_cantera
\* exists once a sample() call has passed line 84
CollectData ==
  /\ Idle
  /\ call' = "_collect_data"
  /\ trace' = <<>>
  /\ proc' = NoProc
  /\ error' = NoError
  /\ IF calls = 0
     THEN pc' = "raised" /\ raised' = "AttributeError"
     ELSE pc' = "collect" /\ raised' = NoException
  /\ UNCHANGED <<zeroVars, learnVars, configVars, output_dir, cwd, written, out_files,
                 paramVars, fsVars, collectVars, data, completed, calls, returned,
                 saved>>

NextCalls == Next \/ Clean \/ RunAllclean \/ CollectData

\* the sampler with clean() and _collect_data() called in any order
SpecCalls == Init /\ [][NextCalls]_vars

(***************************************************************************)
(* Claim C24.  ./Allrun, reconstructPar and ./Allclean are run, and the    *)
(* time directories are scanned, with the case working directory as the    *)
(* current directory, whatever the order of sample(), clean() and          *)
(* _collect_data(); and when sample() has returned the current directory   *)
(* is restored or is the case working directory.                           *)
(***************************************************************************)
\* about to run a path-relative executable or to scan the current directory
AboutToRun == pc \in {"allrun", "reconstruct", "clean", "collect"}

C24_RunsInCaseDirectory ==
  /\ AboutToRun => cwd = working_dir
  /\ (Idle /\ call = "sample") => cwd \in {StartDir, working_dir}

(***************************************************************************)
(* data_sampler/zeroD_sampler.py and base_sampler.py: a ZeroDSampler, whose *)
(* sample() is an empty stub and whose save_as_npy is BaseSampler's.        *)
(***************************************************************************)
\* np.save(path, None): np.asanyarray(None) is a 0-d array of dtype object,
\* which np.save writes as a pickle (allow_pickle is True by default)
np_save_object(d) ==
  [descr |-> "|O", fortran_order |-> FALSE, shape |-> <<>>, payload |-> <<"pickle of None">>]

\* np.save(save_path, self.data), base_sampler.py line 15
np_save_data(d) == IF d = None THEN np_save_object(d) ELSE np_save(d[1])

\* the paths save_as_npy is given, relative to the current directory
SavePaths == {<<"zero.npy">>}

\* ZeroDSampler.sample(), zeroD_sampler.py lines 6-10: pass
ZeroSample ==
  /\ zero_call' = "sample"
  /\ zero_raised' = NoException
  /\ zero_data' = zero_data
  /\ UNCHANGED <<samplerVars, learnVars>>

\* BaseSampler.save_as_npy(save_path), base_sampler.py lines 14-15
SaveAsNpy ==
  /\ Idle
  /\ zero_call' = "save_as_npy"
  /\ zero_raised' = NoException
  /\ zero_data' = zero_data
  /\ \E save_path \in SavePaths :
       out_files' = WriteFile(out_files, Resolve(cwd, save_path), np_save_data(zero_data))
  /\ UNCHANGED <<learnVars, configVars, output_dir, pipeVars, paramVars, fsVars,
                 collectVars, data, completed, pc, raised, apiVars>>

NextSamplers == Next \/ ZeroSample \/ SaveAsNpy

\* a OneDSampler and a ZeroDSampler in one process
SpecSamplers == Init /\ [][NextSamplers]_vars

(***************************************************************************)
(* Claim C25.  A save asked of a sampler whose data is None ends with an   *)
(* error and writes no file: every array file on disk holds an array, and  *)
(* save_as_npy of a ZeroDSampler, whose data is None before and after its  *)
(* sample(), has raised.                                                   *)
(***************************************************************************)
\* the file holds a float array and not a pickled None
HoldsArray(file) == file.descr = "<f8"

C25_NoArtifactWithoutData ==
  /\ \A q \in DOMAIN out_files : HoldsArray(out_files[q])
  /\ (call = "save" /\ data = None) => (pc = "raised" /\ raised = ValueError)
  /\ (zero_call = "save_as_npy" /\ zero_data = None) => zero_raised # NoException

====
